---- MODULE Spec2Model ----
(***************************************************************************)
(* Model of packages/bridge/src/Bridge.ts: the Bridge class, its binding   *)
(* slot (the boundEmitter setter used by the constructor, bind and unbind), *)
(* the inbound dispatch processEvent and the typed bus it republishes on.  *)
(*                                                                         *)
(* The bridge is single-threaded: one public call runs at a time.  The     *)
(* setter is split into its three statements so that the states between    *)
(* them are visible; everything else is one step per call.                 *)
(***************************************************************************)
EXTENDS Integers, Sequences, FiniteSets, TLC

\* Most listeners the application keeps registered on the bus at once.
MaxListeners == 1

\* ------------------------------------------------------------------ values

\* The raw-message sources (GlobalEventEmitter objects) the application owns.
Sources == {"A", "B"}

\* JavaScript null in the binding slot and in the emitter argument.
NoEmitter == "null"

\* Inbound kinds processEvent has a case for, and one it has none for.
ExtractorKinds == {"viewport_changed", "theme_changed", "popup_closed",
                   "set_custom_style", "invoice_closed"}

EmptyKinds == {"main_button_pressed", "back_button_pressed",
               "settings_button_pressed"}

KnownKinds == ExtractorKinds \cup EmptyKinds

UnknownKinds == {"some_future_kind"}

Kinds == KnownKinds \cup UnknownKinds

\* A value travelling through the bridge.  form tells what it is: the two
\* JavaScript nothings, a raw value as the host sent it (shape says which
\* payload it would conform to), or a payload produced by the bridge.
Value(form, shape, arg) == [form |-> form, shape |-> shape, arg |-> arg]

Undefined == Value("undefined", "none", "none")

Null == Value("null", "none", "none")

Raw(shape, arg) == Value("raw", shape, arg)

Payload(shape, arg) == Value("payload", shape, arg)

\* The raw values a host delivers: both nothings, one conforming value per
\* payload shape (two for popup: a button chosen or not) and one value that
\* conforms to no shape.
RawValues == {Undefined, Null,
              Raw("viewport", "v"), Raw("theme", "t"),
              Raw("popup", "ok"), Raw("popup", "null"),
              Raw("invoice", "i"), Raw("string", "s"),
              Raw("other", "x")}

\* Bus listeners the application registers: l1 returns, l2 throws.
Listeners == {"l1", "l2"}

ListenerThrows(l) == l = "l2"

\* Kinds the application listens to.
ListenKinds == {"popup_closed", "main_button_pressed", "some_future_kind"}

\* What the three predicates of ./env answer about the window: any of them
\* may hold, alone or together with others.
Environments == [browser : BOOLEAN, desktopOrMobile : BOOLEAN,
                 windowsPhone : BOOLEAN]

NoEnvironment ==
  [browser |-> FALSE, desktopOrMobile |-> FALSE, windowsPhone |-> FALSE]

VARIABLES
  pc,            \* where the bridge is: "new", "off", "assign", "on", "idle", "failed"
  call,          \* the binding call in progress: [op, emitter]
  boundEmitter,  \* the field _boundEmitter
  registered,    \* per source, how often processEvent is its 'message' listener
  debug,         \* the field debug
  targetOrigin,  \* the field targetOrigin
  listeners,     \* the bus ee: its listeners, <<kind, listener>> in registration order
  last,          \* what the latest public call did
  hist,          \* the two latest completed binding calls
  twin,          \* a second bridge, constructed without emitter and then bound
  subscribers,   \* the bus ee: the listeners of every event, in registration order
  env            \* the window the application runs in, as the predicates of ./env see it

vars == <<pc, call, boundEmitter, registered, debug, targetOrigin, listeners,
          last, hist, twin, subscribers, env>>


\* ------------------------------------------------------- payload extractors

\* What an extractor does with a raw value: the typed payload when the value
\* has the shape the extractor expects, a TypeError otherwise.
Extracted(shape, data) ==
  IF data.form = "raw" /\ data.shape = shape
  THEN [ok |-> TRUE, value |-> Payload(shape, data.arg)]
  ELSE [ok |-> FALSE, value |-> Undefined]

extractViewportChangedPayload(data) == Extracted("viewport", data)

extractThemeChangedPayload(data) == Extracted("theme", data)

extractPopupClosedPayload(data) == Extracted("popup", data)

extractInvoiceClosedPayload(data) == Extracted("invoice", data)

parseJsonParamAsString(data) == Extracted("string", data)

\* The payload processEvent builds itself for popup_closed: {button_id: null}.
NoButtonPayload == Payload("popup", "null")

\* ------------------------------------------------------------------ the bus

\* ee.emit / ee.emitUnsafe: every listener registered for the event is called
\* with the arguments, in registration order; a listener that throws ends the
\* round and its error leaves emit.
RECURSIVE EeEmit(_, _, _)
EeEmit(table, event, args) ==
  IF table = <<>>
  THEN [heard |-> <<>>, threw |-> FALSE]
  ELSE LET entry == Head(table)
           heardNow == [listener |-> entry[2], event |-> event, args |-> args]
       IN IF entry[1] # event
          THEN EeEmit(Tail(table), event, args)
          ELSE IF ListenerThrows(entry[2])
               THEN [heard |-> <<heardNow>>, threw |-> TRUE]
               ELSE LET rest == EeEmit(Tail(table), event, args)
                    IN [heard |-> <<heardNow>> \o rest.heard,
                        threw |-> rest.threw]

\* The listeners added with subscribe are called on every emission, with the
\* event and its arguments.
Notified(subs, event, args) ==
  [i \in 1..Len(subs) |->
     [listener |-> subs[i], event |-> event, args |-> <<event>> \o args]]

\* ee.subscribe and ee.unsubscribe.
EeSubscribe(subs, listener) == Append(subs, listener)

EeUnsubscribe(subs, listener) == SelectSeq(subs, LAMBDA s : s # listener)

\* ee.on: the listener is appended to the table.
EeOn(table, event, listener) == Append(table, <<event, listener>>)

\* ee.off: the listener is no longer registered for the event afterwards;
\* nothing happens when it was not.
RECURSIVE EeOff(_, _, _)
EeOff(table, event, listener) ==
  IF table = <<>>
  THEN <<>>
  ELSE IF Head(table) = <<event, listener>>
       THEN EeOff(Tail(table), event, listener)
       ELSE <<Head(table)>> \o EeOff(Tail(table), event, listener)

\* ------------------------------------------------------------- the bridge

\* this.log: writes to the console in debug mode only.
Log(level, tag) ==
  IF debug THEN <<[level |-> level, tag |-> tag]>> ELSE <<>>

\* What a call into the bridge's private methods did: the console lines, the
\* extractors invoked, the emissions made on the bus, the listener calls they
\* caused and the error that left the call ("none" when it returned).
Done(logs, extractors, emitted, heard, threw) ==
  [logs |-> logs, extractors |-> extractors, emitted |-> emitted,
   heard |-> heard, threw |-> threw]

\* A call that threw before it emitted anything.
Raised(extractor) == Done(<<>>, <<extractor>>, <<>>, <<>>, "TypeError")

\* An emission on the bus of the bridge: the subscribers and the listeners
\* of the event are called.
BusEmit(event, args) ==
  LET round == EeEmit(listeners, event, args)
  IN [heard |-> Notified(subscribers, event, args) \o round.heard,
      threw |-> round.threw]

\* this.emit and this.emitUnsafe: log, then emit on the bus.
EmitVia(path, tag, event, args) ==
  LET round == BusEmit(event, args)
  IN Done(Log("log", tag),
          <<>>,
          <<[path |-> path, event |-> event, args |-> args]>>,
          round.heard,
          IF round.threw THEN "ListenerError" ELSE "none")

emit(event, args) == EmitVia("emit", "[emit]", event, args)

emitUnsafe(event, args) == EmitVia("emitUnsafe", "[emitUnsafe]", event, args)

\* EmitExtracted that emits whatever the extractor left, also when it failed.
EmitExtractedUnvalidated(type, extractor, result) ==
  LET e == emit(type, <<result.value>>)
  IN [e EXCEPT !.extractors = <<extractor>>]

\* return this.emit(type, extractor(data)): the extractor runs first, and the
\* emission is made only when it returned.
EmitExtracted(type, extractor, result) ==
  IF result.ok
  THEN LET e == emit(type, <<result.value>>)
       IN [e EXCEPT !.extractors = <<extractor>>]
  ELSE Raised(extractor)

\* case 'viewport_changed'
CaseViewportChanged(type, data) ==
  EmitExtracted(type, "extractViewportChangedPayload",
                extractViewportChangedPayload(data))

\* case 'theme_changed'
CaseThemeChanged(type, data) ==
  EmitExtracted(type, "extractThemeChangedPayload",
                extractThemeChangedPayload(data))

\* The popup_closed case with the desktop check only: null goes to the
\* extractor.
CasePopupClosedDesktopOnly(type, data) ==
  IF data = Undefined
  THEN emit(type, <<NoButtonPayload>>)
  ELSE EmitExtracted(type, "extractPopupClosedPayload",
                     extractPopupClosedPayload(data))

\* case 'popup_closed': undefined (desktop) and null (iOS) stand for a popup
\* closed without a button; anything else goes through the extractor.
CasePopupClosed(type, data) ==
  IF data = Undefined \/ data = Null
  THEN emit(type, <<NoButtonPayload>>)
  ELSE EmitExtracted(type, "extractPopupClosedPayload",
                     extractPopupClosedPayload(data))

\* case 'set_custom_style'
CaseSetCustomStyle(type, data) ==
  EmitExtracted(type, "parseJsonParamAsString", parseJsonParamAsString(data))

\* The argument-less case returning without an emission.
CaseNoArgumentsSilent(type, data) == Done(<<>>, <<>>, <<>>, <<>>, "none")

\* The argument-less case handing the raw data on.
CaseNoArgumentsWithData(type, data) == emit(type, <<data>>)

\* case 'main_button_pressed', 'back_button_pressed',
\* 'settings_button_pressed': emitted with no argument.
CaseNoArguments(type, data) == emit(type, <<>>)

\* case 'invoice_closed'
CaseInvoiceClosed(type, data) ==
  EmitExtracted(type, "extractInvoiceClosedPayload",
                extractInvoiceClosedPayload(data))

\* The default case sending the unknown kind down the typed path without its
\* data.
CaseDefaultTyped(type, data) == emit(type, <<>>)

\* default: the listeners get the data as it came.
CaseDefault(type, data) == emitUnsafe(type, <<data>>)

\* The switch of processEvent.
Dispatch(type, data) ==
  CASE type = "viewport_changed" -> CaseViewportChanged(type, data)
    [] type = "theme_changed" -> CaseThemeChanged(type, data)
    [] type = "popup_closed" -> CasePopupClosed(type, data)
    [] type = "set_custom_style" -> CaseSetCustomStyle(type, data)
    [] type \in {"main_button_pressed", "back_button_pressed",
                 "settings_button_pressed"} -> CaseNoArguments(type, data)
    [] type = "invoice_closed" -> CaseInvoiceClosed(type, data)
    [] OTHER -> CaseDefault(type, data)

\* processEvent without its catch: what the switch throws leaves unlogged.
processEventUncaught(type, data) ==
  LET d == Dispatch(type, data)
  IN [d EXCEPT !.logs = Log("log", "[processEvent]") \o @]

\* processEvent with a catch that logs and does not rethrow.
processEventSwallows(type, data) ==
  LET d == Dispatch(type, data)
  IN [d EXCEPT !.logs = Log("log", "[processEvent]") \o @ \o
                        (IF d.threw = "none"
                         THEN <<>>
                         ELSE Log("error", "[processEvent] error")),
               !.threw = "none"]

\* processEvent: log the call, run the switch, and log and rethrow whatever
\* the switch threw.
processEvent(type, data) ==
  LET d == Dispatch(type, data)
  IN [d EXCEPT !.logs = Log("log", "[processEvent]") \o @ \o
                        (IF d.threw = "none"
                         THEN <<>>
                         ELSE Log("error", "[processEvent] error"))]


\* --------------------------------------------------- raw-message sources

\* source.on('message', processEvent) and source.off('message', processEvent)
\* on a GlobalEventEmitter: on adds a registration, off removes one if there
\* is one.
EmitterOn(reg, source) == [reg EXCEPT ![source] = @ + 1]

EmitterOff(reg, source) == [reg EXCEPT ![source] = IF @ > 0 THEN @ - 1 ELSE 0]

\* source.emit('message', type, data): processEvent runs once per
\* registration; the first run that throws ends the round.
SourceEmit(n, type, data) ==
  LET run == processEvent(type, data)
  IN IF n = 0
     THEN <<>>
     ELSE IF run.threw # "none" THEN <<run>> ELSE [i \in 1..n |-> run]

\* ------------------------------------------------------------ bookkeeping

\* The record of a public call: what it was called with, the bridge as the
\* call found it, and what the call has done so far.
Called(op, emitter, type, data) ==
  [op |-> op, emitter |-> emitter, type |-> type, data |-> data,
   before |-> [bound |-> boundEmitter, listeners |-> listeners,
               registered |-> registered, subscribers |-> subscribers,
               sends |-> last.sends, env |-> env],
   calls |-> <<>>, runs |-> <<>>, threw |-> "none",
   form |-> "none", options |-> Undefined, sends |-> <<>>, logs |-> <<>>,
   listener |-> "none"]

NoCall ==
  [op |-> "none", emitter |-> NoEmitter, type |-> "none", data |-> Undefined,
   before |-> [bound |-> NoEmitter, listeners |-> <<>>,
               registered |-> [s \in Sources |-> 0], subscribers |-> <<>>,
               sends |-> <<>>, env |-> NoEnvironment],
   calls |-> <<>>, runs |-> <<>>, threw |-> "none",
   form |-> "none", options |-> Undefined, sends |-> <<>>, logs |-> <<>>,
   listener |-> "none"]

\* A history with one more completed binding call, the two latest kept.
HistWith(h, entry) ==
  LET all == Append(h, entry)
  IN IF Len(all) > 2 THEN Tail(all) ELSE all

\* hist with the binding call in progress completed.
Remembered(threw) ==
  HistWith(hist, [op |-> call.op, emitter |-> call.emitter, threw |-> threw])

\* ------------------------------------------------------------ the setter

\* The binding of a bridge as the setter sees it: the slot, the registrations
\* of its processEvent, and the calls made on sources by the public call in
\* progress.
Binding ==
  [bound |-> boundEmitter, registered |-> registered, calls |-> last.calls]

\* A bridge whose field initialisers have run: the slot holds null.
Unbound ==
  [bound |-> NoEmitter, registered |-> [s \in Sources |-> 0], calls |-> <<>>]

\* OffStep without its body: the previous emitter keeps its listener.
OffStepSkipped(b) == b

\* OffStep taking the listener off the emitter being bound instead of the one
\* in the slot.
OffStepOnNewEmitter(b) ==
  IF b.bound # NoEmitter
  THEN [b EXCEPT !.registered = IF call.emitter \in Sources
                                THEN EmitterOff(@, call.emitter)
                                ELSE @,
                 !.calls = Append(@, <<"off", call.emitter>>)]
  ELSE b

\* OffStep that detaches only when another emitter is about to be bound.
OffStepUnlessUnbinding(b) ==
  IF b.bound # NoEmitter /\ call.emitter # NoEmitter
  THEN [b EXCEPT !.registered = EmitterOff(@, b.bound),
                 !.calls = Append(@, <<"off", b.bound>>)]
  ELSE b

\* OffStep without the null check: off is called on whatever the slot holds.
OffStepUnchecked(b) ==
  [b EXCEPT !.registered = IF b.bound \in Sources
                           THEN EmitterOff(@, b.bound)
                           ELSE @,
            !.calls = Append(@, <<"off", b.bound>>)]

\* OffStep that leaves the registration alone when the setter is given the
\* emitter the slot already holds.
OffStepUnlessSame(b) ==
  IF b.bound # NoEmitter /\ b.bound # call.emitter
  THEN [b EXCEPT !.registered = EmitterOff(@, b.bound),
                 !.calls = Append(@, <<"off", b.bound>>)]
  ELSE b

\* "Unbind from previous emitter": processEvent is taken off the emitter the
\* slot holds, if it holds one.
OffStep(b) ==
  IF b.bound # NoEmitter
  THEN [b EXCEPT !.registered = EmitterOff(@, b.bound),
                 !.calls = Append(@, <<"off", b.bound>>)]
  ELSE b

\* AssignStep that writes the slot only when it is empty or being emptied.
AssignStepKeepsBound(b, emitter) ==
  IF b.bound # NoEmitter /\ emitter # NoEmitter
  THEN b
  ELSE [b EXCEPT !.bound = emitter]

\* AssignStep that leaves the slot as it was.
AssignStepForgotten(b, emitter) == b

\* "Assign new emitter": the slot takes the emitter given to the setter.
AssignStep(b, emitter) == [b EXCEPT !.bound = emitter]

\* "and start listening to events": processEvent is put on the emitter the
\* slot now holds, if it holds one.
OnStep(b) ==
  IF b.bound # NoEmitter
  THEN [b EXCEPT !.registered = EmitterOn(@, b.bound),
                 !.calls = Append(@, <<"on", b.bound>>)]
  ELSE b

\* The same call when the emitter's on throws: nothing is registered.
OnStepThrows(b) == [b EXCEPT !.calls = Append(@, <<"on", b.bound>>)]

\* ---------------------------------------------------------------- actions

\* The fields as their initialisers leave them, before the constructor body.
Init ==
  /\ pc = "new"
  /\ call = [op |-> "none", emitter |-> NoEmitter]
  /\ boundEmitter = Unbound.bound
  /\ registered = Unbound.registered
  /\ debug = FALSE
  /\ targetOrigin = "unset"
  /\ listeners = <<>>
  /\ last = NoCall
  /\ hist = <<>>
  /\ twin = [Unbound EXCEPT !.calls = <<>>] @@ [invoked |-> 0]
  /\ subscribers = <<>>
  /\ env = NoEnvironment

\* The twin between two public calls.
TwinRests == [twin EXCEPT !.calls = <<>>, !.invoked = 0]

\* Entering the boundEmitter setter with the given emitter.
EnterSetter(op, emitter) ==
  /\ pc' = "off"
  /\ call' = [op |-> op, emitter |-> emitter]
  /\ last' = Called(op, emitter, "none", Undefined)
  /\ UNCHANGED <<boundEmitter, registered, listeners, hist, subscribers, env>>

\* A constructor that writes the field _boundEmitter itself instead of going
\* through the setter.
ConstructorWritesField(propsDebug, propsEmitter, propsTargetOrigin) ==
  /\ pc = "new"
  /\ debug' = propsDebug
  /\ targetOrigin' = propsTargetOrigin
  /\ boundEmitter' = propsEmitter
  /\ pc' = "idle"
  /\ call' = [op |-> "constructor", emitter |-> propsEmitter]
  /\ last' = Called("constructor", propsEmitter, "none", Undefined)
  /\ hist' = <<[op |-> "constructor", emitter |-> propsEmitter,
                threw |-> "none"]>>
  /\ twin' = [OnStep(AssignStep(OffStep(twin), propsEmitter)) EXCEPT
                !.calls = <<>>]
  /\ UNCHANGED <<registered, listeners, subscribers, env>>

\* new Bridge(props): debug and targetOrigin are stored, then the emitter
\* (null when none is given) goes through the setter.  The twin is
\* constructed with the same props but no emitter, which takes it through
\* the setter with null, and bind(propsEmitter) is then called on it.
Constructor(propsDebug, propsEmitter, propsTargetOrigin) ==
  /\ pc = "new"
  /\ debug' = propsDebug
  /\ targetOrigin' = propsTargetOrigin
  /\ EnterSetter("constructor", propsEmitter)
  /\ twin' = [OnStep(AssignStep(OffStep(twin), NoEmitter)) EXCEPT !.calls = <<>>]

\* bind(emitter)
Bind(emitter) ==
  /\ pc = "idle"
  /\ EnterSetter("bind", emitter)
  /\ twin' = TwinRests
  /\ UNCHANGED <<debug, targetOrigin>>

\* unbind()
Unbind ==
  /\ pc = "idle"
  /\ EnterSetter("unbind", NoEmitter)
  /\ twin' = TwinRests
  /\ UNCHANGED <<debug, targetOrigin>>

\* The binding after a step of the setter is written back to the fields.
Rebound(b) ==
  /\ boundEmitter' = b.bound
  /\ registered' = b.registered
  /\ last' = [last EXCEPT !.calls = b.calls]

\* The setter's first statement.
SetterOff ==
  /\ pc = "off"
  /\ Rebound(OffStep(Binding))
  /\ twin' = OffStep(twin)
  /\ pc' = "assign"
  /\ UNCHANGED <<call, debug, targetOrigin, listeners, hist, subscribers, env>>

\* The setter's second statement.
SetterAssign ==
  /\ pc = "assign"
  /\ Rebound(AssignStep(Binding, call.emitter))
  /\ twin' = AssignStep(twin, call.emitter)
  /\ pc' = "on"
  /\ UNCHANGED <<call, debug, targetOrigin, listeners, hist, subscribers, env>>

\* The setter's third statement, after which the public call returns.
SetterOn ==
  /\ pc = "on"
  /\ Rebound(OnStep(Binding))
  /\ twin' = OnStep(twin)
  /\ pc' = "idle"
  /\ hist' = Remembered("none")
  /\ UNCHANGED <<call, debug, targetOrigin, listeners, subscribers, env>>

\* The setter's third statement when the emitter's on throws: the error
\* leaves the setter and the public call; a constructor that throws leaves
\* no bridge behind.
SetterOnThrows ==
  /\ pc = "on"
  /\ boundEmitter # NoEmitter
  /\ LET b == OnStepThrows(Binding)
     IN /\ boundEmitter' = b.bound
        /\ registered' = b.registered
        /\ last' = [last EXCEPT !.calls = b.calls, !.threw = "AttachError"]
  /\ twin' = OnStepThrows(twin)
  /\ pc' = IF call.op = "constructor" THEN "failed" ELSE "idle"
  /\ hist' = Remembered("AttachError")
  /\ UNCHANGED <<call, debug, targetOrigin, listeners, subscribers, env>>

\* Listeners that call back into the bridge while processEvent is running:
\* l3 calls unbind(), l4 calls bind(B).
RebindingListeners == {"l3", "l4"}

\* The binding call a rebinding listener makes.
Request(listener) ==
  IF listener = "l3"
  THEN [op |-> "unbind", emitter |-> NoEmitter]
  ELSE [op |-> "bind", emitter |-> "B"]

\* The binding calls made by the listeners of one round, in order.
RECURSIVE Requested(_)
Requested(heard) ==
  IF heard = <<>>
  THEN <<>>
  ELSE (IF Head(heard).listener \in RebindingListeners
        THEN <<Request(Head(heard).listener)>>
        ELSE <<>>) \o Requested(Tail(heard))

\* The binding calls made during the runs of processEvent of one message.
RECURSIVE RequestedIn(_)
RequestedIn(runs) ==
  IF runs = <<>>
  THEN <<>>
  ELSE Requested(Head(runs).heard) \o RequestedIn(Tail(runs))

\* The binding after the setter has run, start to end, for each request.
RECURSIVE Reentered(_, _)
Reentered(b, requests) ==
  IF requests = <<>>
  THEN b
  ELSE Reentered(OnStep(AssignStep(OffStep(b), Head(requests).emitter)),
                 Tail(requests))

\* The history after the requests have returned.
RECURSIVE HistAfter(_, _)
HistAfter(h, requests) ==
  IF requests = <<>>
  THEN h
  ELSE HistAfter(HistWith(h, [op |-> Head(requests).op,
                              emitter |-> Head(requests).emitter,
                              threw |-> "none"]),
                 Tail(requests))

\* A source delivers a message: its emit calls the 'message' listeners, the
\* processEvent of each bridge registered on it.  The bind and unbind calls
\* that listeners make from inside processEvent run, setter and all, before
\* the delivery returns.
Deliver(source, type, data) ==
  /\ pc = "idle"
  /\ LET runs == SourceEmit(registered[source], type, data)
         requests == RequestedIn(runs)
         b == Reentered([Binding EXCEPT !.calls = <<>>], requests)
     IN /\ last' = [Called("deliver", source, type, data) EXCEPT
                      !.runs = runs,
                      !.calls = b.calls,
                      !.threw = IF runs = <<>> THEN "none"
                                ELSE runs[Len(runs)].threw]
        /\ boundEmitter' = b.bound
        /\ registered' = b.registered
        /\ hist' = HistAfter(hist, requests)
  /\ twin' = [TwinRests EXCEPT
                !.invoked = Len(SourceEmit(twin.registered[source], type, data))]
  /\ UNCHANGED <<pc, call, debug, targetOrigin, listeners, subscribers, env>>

\* Whether the listener is registered for the kind in the table.
IsRegistered(table, kind, listener) ==
  \E i \in 1..Len(table) : table[i] = <<kind, listener>>

\* on(kind, listener) = ee.on
On(kind, listener) ==
  /\ pc = "idle"
  /\ Len(listeners) + Len(subscribers) < MaxListeners
  /\ listeners' = EeOn(listeners, kind, listener)
  /\ last' = [Called("on", NoEmitter, kind, Undefined) EXCEPT
                !.listener = listener]
  /\ twin' = TwinRests
  /\ UNCHANGED <<pc, call, boundEmitter, registered, debug, targetOrigin, hist,
                 subscribers, env>>

\* An off that leaves the table of the bus alone.
OffLeavesTable(kind, listener) ==
  /\ pc = "idle"
  /\ last' = [Called("off", NoEmitter, kind, Undefined) EXCEPT
                !.listener = listener]
  /\ twin' = TwinRests
  /\ UNCHANGED <<pc, call, boundEmitter, registered, debug, targetOrigin, hist,
                 subscribers, env, listeners>>

\* off(kind, listener) = ee.off
Off(kind, listener) ==
  /\ pc = "idle"
  /\ listeners' = EeOff(listeners, kind, listener)
  /\ last' = [Called("off", NoEmitter, kind, Undefined) EXCEPT
                !.listener = listener]
  /\ twin' = TwinRests
  /\ UNCHANGED <<pc, call, boundEmitter, registered, debug, targetOrigin, hist,
                 subscribers, env>>

\* The listeners an application adds with subscribe.
Subscribers == {"s1"}

\* subscribe(listener) = ee.subscribe
Subscribe(listener) ==
  /\ pc = "idle"
  /\ Len(listeners) + Len(subscribers) < MaxListeners
  /\ subscribers' = EeSubscribe(subscribers, listener)
  /\ last' = [Called("subscribe", NoEmitter, "none", Undefined) EXCEPT
                !.listener = listener]
  /\ twin' = TwinRests
  /\ UNCHANGED <<pc, call, boundEmitter, registered, debug, targetOrigin, hist,
                 listeners, env>>

\* unsubscribe(listener) = ee.unsubscribe
Unsubscribe(listener) ==
  /\ pc = "idle"
  /\ subscribers' = EeUnsubscribe(subscribers, listener)
  /\ last' = [Called("unsubscribe", NoEmitter, "none", Undefined) EXCEPT
                !.listener = listener]
  /\ twin' = TwinRests
  /\ UNCHANGED <<pc, call, boundEmitter, registered, debug, targetOrigin, hist,
                 listeners, env>>

\* ------------------------------------------------------------- postEvent

\* The predicates of ./env, asked about the window as it is now.
isBrowserEnv == env.browser

isDesktopOrMobileEnv == env.desktopOrMobile

isWindowsPhoneEnv == env.windowsPhone

\* Outbound events without parameters and with parameters.
EmptyPostEvents == {"web_app_close"}

ParamPostEvents == {"web_app_data_send"}

\* The default of the parameter params: ''.
EmptyString == Value("string", "empty", "")

\* The default of the parameter options: {}.
NoOptions == Value("options", "none", "none")

\* The params and options an application passes.
ParamValues == {Value("params", "object", "p")}

OptionValues == {NoOptions,
                 Value("options", "targetOrigin", "https://example.test")}

\* The arguments after event that a public call form passes, in order:
\* postEvent(event, params, options?) and postEvent(event, options?).
\* Undefined stands for options not given.
PostArguments(form, params, options) ==
  IF form = "params"
  THEN IF options = Undefined THEN <<params>> ELSE <<params, options>>
  ELSE IF options = Undefined THEN <<>> ELSE <<options>>

\* The parameters of the implementation, bound by position:
\* params: any = '' and options: PostEventOptions = {}.
ParamsOf(args) ==
  IF Len(args) >= 1 /\ args[1] # Undefined THEN args[1] ELSE EmptyString

OptionsOf(args) ==
  IF Len(args) >= 2 /\ args[2] # Undefined THEN args[2] ELSE NoOptions

\* options.targetOrigin || this.targetOrigin
TargetOriginOf(options) ==
  IF options.form = "options" /\ options.shape = "targetOrigin"
  THEN options.arg
  ELSE targetOrigin

\* One call of a transport: the method, the event and data sent, which part
\* went through JSON.stringify, and the origin where the transport takes one.
Sent(method, event, params, serialized, origin) ==
  [method |-> method, eventType |-> event, eventData |-> params,
   serialized |-> serialized, targetOrigin |-> origin]

ViaPostMessage(event, params, options) ==
  Sent("window.parent.postMessage", event, params, "eventType+eventData",
       TargetOriginOf(options))

ViaWebviewProxy(event, params) ==
  Sent("window.TelegramWebviewProxy.postEvent", event, params, "eventData",
       "none")

ViaExternalNotify(event, params) ==
  Sent("window.external.notify", event, params, "eventType+eventData", "none")

\* Sends with a separate if for each environment.
SendsOnEveryTransport(event, params, options) ==
  (IF isBrowserEnv THEN <<ViaPostMessage(event, params, options)>> ELSE <<>>)
  \o (IF isDesktopOrMobileEnv THEN <<ViaWebviewProxy(event, params)>> ELSE <<>>)
  \o (IF isWindowsPhoneEnv THEN <<ViaExternalNotify(event, params)>> ELSE <<>>)

\* Sends falling back to the parent window when no environment is found.
SendsOrFallsBack(event, params, options) ==
  IF isDesktopOrMobileEnv /\ ~isBrowserEnv
  THEN <<ViaWebviewProxy(event, params)>>
  ELSE IF isWindowsPhoneEnv /\ ~isBrowserEnv
       THEN <<ViaExternalNotify(event, params)>>
       ELSE <<ViaPostMessage(event, params, options)>>

\* The if / else if chain of postEvent: the sends it makes, none when it
\* reaches the final else and throws.
Sends(event, params, options) ==
  IF isBrowserEnv
  THEN <<ViaPostMessage(event, params, options)>>
  ELSE IF isDesktopOrMobileEnv
       THEN <<ViaWebviewProxy(event, params)>>
       ELSE IF isWindowsPhoneEnv
            THEN <<ViaExternalNotify(event, params)>>
            ELSE <<>>

\* A postEvent that also clears the binding slot.
PostEventUnbinds(form, event, params, options) ==
  /\ pc = "idle"
  /\ LET args == PostArguments(form, params, options)
         sends == Sends(event, ParamsOf(args), OptionsOf(args))
     IN last' = [Called("postEvent", NoEmitter, event, params) EXCEPT
                   !.form = form,
                   !.options = options,
                   !.sends = sends,
                   !.threw = IF sends = <<>> THEN "Error" ELSE "none",
                   !.logs = IF sends = <<>>
                            THEN <<>>
                            ELSE Log("log", "[postEvent]")]
  /\ twin' = TwinRests
  /\ boundEmitter' = NoEmitter
  /\ UNCHANGED <<pc, call, registered, debug, targetOrigin,
                 listeners, hist, subscribers, env>>

\* postEvent called in one of its two public forms.  params is what the
\* caller passes as parameters (Undefined in the form without), options what
\* it passes as options (Undefined when it passes none).
PostEvent(form, event, params, options) ==
  /\ pc = "idle"
  /\ LET args == PostArguments(form, params, options)
         sends == Sends(event, ParamsOf(args), OptionsOf(args))
     IN last' = [Called("postEvent", NoEmitter, event, params) EXCEPT
                   !.form = form,
                   !.options = options,
                   !.sends = sends,
                   !.threw = IF sends = <<>> THEN "Error" ELSE "none",
                   !.logs = IF sends = <<>>
                            THEN <<>>
                            ELSE Log("log", "[postEvent]")]
  /\ twin' = TwinRests
  /\ UNCHANGED <<pc, call, boundEmitter, registered, debug, targetOrigin,
                 listeners, hist, subscribers, env>>

\* The window changes under the application: the predicates answer
\* differently from now on.
EnvChanges(e) ==
  /\ pc = "idle"
  /\ e # env
  /\ env' = e
  /\ UNCHANGED <<pc, call, boundEmitter, registered, debug, targetOrigin,
                 listeners, last, hist, twin, subscribers>>

\* The target origins a bridge is constructed with: the default.
Origins == {"https://web.telegram.org"}

\* The messages delivered while the binding is exercised: a kind handled
\* without an extractor and one the bridge does not know, each with a null
\* and with a non-null value.
BindingKinds == {"popup_closed", "some_future_kind"}

BindingValues == {Null, Raw("other", "x")}

\* The life of a bridge: construction, binding calls, bus registrations and
\* the messages of BindingKinds delivered on either source.
Next ==
  \/ \E d \in BOOLEAN, e \in Sources \cup {NoEmitter}, o \in Origins :
       Constructor(d, e, o)
  \/ \E e \in Sources : Bind(e)
  \/ Unbind
  \/ SetterOff
  \/ SetterAssign
  \/ SetterOn
  \/ SetterOnThrows
  \/ \E s \in Sources, k \in BindingKinds, v \in BindingValues : Deliver(s, k, v)
  \/ \E k \in ListenKinds, l \in Listeners : On(k, l)
  \/ \E k \in ListenKinds, l \in Listeners : Off(k, l)

Spec == Init /\ [][Next]_vars

\* The inbound dispatch on every kind and every raw value: a bridge is
\* constructed, with or without an emitter, the application registers and
\* removes bus listeners, and the source the bridge is bound to delivers any
\* message (what the other source delivers is part of Spec).
NextDispatch ==
  \/ \E d \in BOOLEAN, e \in Sources \cup {NoEmitter}, o \in Origins :
       Constructor(d, e, o)
  \/ SetterOff
  \/ SetterAssign
  \/ SetterOn
  \/ SetterOnThrows
  \/ \E s \in Sources \cap {boundEmitter}, k \in Kinds, v \in RawValues :
       Deliver(s, k, v)
  \/ \E k \in ListenKinds, l \in Listeners : On(k, l)
  \/ \E k \in ListenKinds, l \in Listeners : Off(k, l)

SpecDispatch == Init /\ [][NextDispatch]_vars


\* The target origins of a bridge that posts events: the default and one
\* given in props.
PostOrigins == Origins \cup {"https://bridge.test"}

\* The outbound side: a bridge is constructed, the window changes, the
\* application registers bus listeners and posts events in both call forms.
NextPost ==
  \/ \E d \in BOOLEAN, o \in PostOrigins : Constructor(d, "A", o)
  \/ SetterOff
  \/ SetterAssign
  \/ SetterOn
  \/ SetterOnThrows
  \/ \E e \in Environments : EnvChanges(e)
  \/ \E ev \in ParamPostEvents, p \in ParamValues,
        o \in OptionValues \cup {Undefined} : PostEvent("params", ev, p, o)
  \/ \E ev \in EmptyPostEvents, o \in OptionValues \cup {Undefined} :
       PostEvent("empty", ev, Undefined, o)
  \/ \E l \in Listeners : On("popup_closed", l)
  \/ \E l \in Listeners : Off("popup_closed", l)

SpecPost == Init /\ [][NextPost]_vars

\* Listeners that rebind the bridge from inside processEvent: a bridge comes
\* up bound to A, listeners that call unbind() or bind(B) are registered, and
\* messages arrive on both sources; bind(A) brings the bridge back.
NextReentrant ==
  \/ \E d \in BOOLEAN, o \in Origins : Constructor(d, "A", o)
  \/ SetterOff
  \/ SetterAssign
  \/ SetterOn
  \/ SetterOnThrows
  \/ Bind("A")
  \/ \E s \in Sources, v \in BindingValues : Deliver(s, "popup_closed", v)
  \/ \E l \in RebindingListeners \cup {"l1"} : On("popup_closed", l)
  \/ \E l \in RebindingListeners \cup {"l1"} : Off("popup_closed", l)

SpecReentrant == Init /\ [][NextReentrant]_vars

\* A window in which only the browser predicate holds.
BrowserOnly == [NoEnvironment EXCEPT !.browser = TRUE]

\* Every public entry point on one bridge: it is constructed, bound and
\* unbound, listeners and subscribers come and go, messages arrive and events
\* are posted, with and without an environment to post them in.
NextFrame ==
  \/ \E e \in {"A", NoEmitter} : Constructor(TRUE, e, "https://web.telegram.org")
  \/ SetterOff
  \/ SetterAssign
  \/ SetterOn
  \/ SetterOnThrows
  \/ Bind("A")
  \/ Unbind
  \/ \E e \in {NoEnvironment, BrowserOnly} : EnvChanges(e)
  \/ \E ev \in EmptyPostEvents : PostEvent("empty", ev, Undefined, Undefined)
  \/ \E v \in BindingValues : Deliver("A", "popup_closed", v)
  \/ \E l \in Listeners : On("popup_closed", l)
  \/ \E l \in Listeners : Off("popup_closed", l)
  \/ \E s \in Subscribers : Subscribe(s)
  \/ \E s \in Subscribers : Unsubscribe(s)

SpecFrame == Init /\ [][NextFrame]_vars

\* ------------------------------------------------------------- properties

\* A binding call of hist that returned.
Returned(h, op) == h.op = op /\ h.threw = "none"

\* The bridge is between calls and its two latest binding calls were
\* bind(A) and bind(B), both returned, A and B distinct sources.
AfterBindBind ==
  /\ pc = "idle"
  /\ Len(hist) = 2
  /\ Returned(hist[1], "bind")
  /\ Returned(hist[2], "bind")
  /\ hist[1].emitter # hist[2].emitter

\* C1: after bind(A) then bind(B), A # B, a message delivered on A runs
\* processEvent not at all (so nothing is emitted on the bus), and a message
\* delivered on B runs it exactly once.
C1_RebindMovesDelivery ==
  (AfterBindBind /\ last.op = "deliver") =>
    /\ last.emitter = hist[1].emitter => last.runs = <<>>
    /\ last.emitter = hist[2].emitter => Len(last.runs) = 1

C1_Witness ==
  /\ AfterBindBind
  /\ last.op = "deliver"
  /\ last.emitter = hist[1].emitter
  /\ last.runs = <<>>

\* The sources processEvent is a 'message' listener of.
RegisteredOn == {s \in Sources : registered[s] > 0}

\* C2: in every state, the ones between the statements of the setter
\* included, processEvent is registered on at most one source; so in a rebind
\* from A to B the registration on A is gone before the one on B is made.
C2_AtMostOneSource == Cardinality(RegisteredOn) <= 1

\* A rebind from one source to another has returned.
C2_Witness ==
  /\ pc = "idle"
  /\ last.op = "bind"
  /\ last.calls = <<<<"off", "A">>, <<"on", "B">>>>
  /\ RegisteredOn = {"B"}

\* C3 as stated: a non-empty binding slot names a source on which
\* processEvent is registered, in every state.
C3_SlotNamesRegisteredSource ==
  boundEmitter # NoEmitter => registered[boundEmitter] > 0

\* C3 as amended: the setter detaches, then records, then attaches.  In every
\* state a source on which processEvent is registered is the one the slot
\* names; when the slot is about to be written nothing is registered, and
\* when the attach is about to be made the slot already names the new
\* emitter and nothing is registered yet.
C3_RegisteredSourceIsInSlot ==
  /\ \A s \in Sources : registered[s] > 0 => boundEmitter = s
  /\ pc = "assign" => RegisteredOn = {}
  /\ pc = "on" => boundEmitter = call.emitter /\ RegisteredOn = {}

\* A rebind whose attach threw: the slot names the new source, on which
\* nothing is registered.
C3_Witness ==
  /\ pc = "idle"
  /\ last.op = "bind"
  /\ last.threw = "AttachError"
  /\ last.before.bound \in Sources \ {last.emitter}
  /\ boundEmitter = last.emitter
  /\ RegisteredOn = {}

\* The bridge is between calls and its two latest binding calls were
\* bind(A) and unbind(), both returned.
AfterBindUnbind ==
  /\ pc = "idle"
  /\ Len(hist) = 2
  /\ Returned(hist[1], "bind")
  /\ Returned(hist[2], "unbind")

\* C4: after bind(A) then unbind(), and until the next binding call, the
\* bridge is unbound and a message delivered on A runs processEvent not at
\* all.
C4_UnbindStopsDelivery ==
  AfterBindUnbind =>
    /\ boundEmitter = NoEmitter
    /\ (last.op = "deliver" /\ last.emitter = hist[1].emitter) =>
         last.runs = <<>>

C4_Witness ==
  /\ AfterBindUnbind
  /\ last.op = "deliver"
  /\ last.emitter = hist[1].emitter
  /\ last.type = "popup_closed"
  /\ listeners # <<>>

\* C5: unbind() on an unbound bridge calls neither on nor off on any source,
\* leaves the slot empty and the bus table as it was, and does not throw.
C5_UnbindUnboundIsNoOp ==
  (last.op = "unbind" /\ last.before.bound = NoEmitter) =>
    /\ last.calls = <<>>
    /\ boundEmitter = NoEmitter
    /\ RegisteredOn = {}
    /\ listeners = last.before.listeners
    /\ last.threw = "none"
    /\ pc \in {"off", "assign", "on", "idle"}

C5_Witness ==
  /\ pc = "idle"
  /\ last.op = "unbind"
  /\ last.before.bound = NoEmitter
  /\ listeners # <<>>

\* C6: a bridge constructed with an emitter is, once the constructor has
\* returned and after every later call, in the state of the twin that was
\* constructed without one and then bound to it, and a delivered message
\* runs the processEvent of both equally often; a bridge constructed without
\* emitter is unbound and registered nowhere.
C6_ConstructorBindsLikeBind ==
  /\ pc = "idle" =>
       /\ twin.bound = boundEmitter
       /\ twin.registered = registered
       /\ twin.invoked = Len(last.runs)
  /\ (pc = "idle" /\ Len(hist) = 1 /\ Returned(hist[1], "constructor")) =>
       IF hist[1].emitter = NoEmitter
       THEN boundEmitter = NoEmitter /\ RegisteredOn = {}
       ELSE boundEmitter = hist[1].emitter
            /\ registered = EmitterOn(Unbound.registered, hist[1].emitter)

\* A bridge constructed with A has handled a message A delivered.
C6_Witness ==
  /\ pc = "idle"
  /\ hist = <<[op |-> "constructor", emitter |-> "A", threw |-> "none"]>>
  /\ last.op = "deliver"
  /\ last.emitter = "A"
  /\ twin.invoked = 1


\* The extractor the bridge is to use for a kind, applied to a raw value.
ExtractorResult(type, data) ==
  CASE type = "viewport_changed" -> extractViewportChangedPayload(data)
    [] type = "theme_changed" -> extractThemeChangedPayload(data)
    [] type = "popup_closed" -> extractPopupClosedPayload(data)
    [] type = "set_custom_style" -> parseJsonParamAsString(data)
    [] type = "invoice_closed" -> extractInvoiceClosedPayload(data)

\* One emission, as a run of processEvent records it.
Emission(path, event, args) == [path |-> path, event |-> event, args |-> args]

\* The only error leaving the run is the error of a listener it called.
OnlyListenerErrors(run) ==
  run.threw = IF \E j \in DOMAIN run.heard : ListenerThrows(run.heard[j].listener)
              THEN "ListenerError"
              ELSE "none"

\* A message of the kind was delivered and processEvent ran.
Processed(kinds) ==
  /\ last.op = "deliver"
  /\ last.type \in kinds
  /\ last.runs # <<>>

\* C7: for a kind with an extractor (popup_closed with undefined or null set
\* aside), a run of processEvent on a conforming value makes one typed
\* emission of the kind with the extractor's output; on a non-conforming
\* value the extractor's TypeError leaves processEvent, and the delivery, and
\* nothing is emitted and no listener is called.
C7_ExtractorDecides ==
  (/\ Processed(ExtractorKinds)
   /\ ~(last.type = "popup_closed" /\ last.data \in {Undefined, Null})) =>
    \A i \in DOMAIN last.runs :
      LET run == last.runs[i]
          x == ExtractorResult(last.type, last.data)
      IN IF x.ok
         THEN run.emitted = <<Emission("emit", last.type, <<x.value>>)>>
         ELSE /\ run.threw = "TypeError"
              /\ last.threw = "TypeError"
              /\ run.emitted = <<>>
              /\ run.heard = <<>>

\* invoice_closed with a value of another shape: the TypeError has left.
C7_Witness ==
  /\ Processed({"invoice_closed"})
  /\ last.data = Raw("viewport", "v")
  /\ last.threw = "TypeError"
  /\ last.runs[1].emitted = <<>>

C9_NoArgumentKinds ==
  Processed(EmptyKinds) =>
    \A i \in DOMAIN last.runs :
      LET run == last.runs[i]
      IN /\ run.emitted = <<Emission("emit", last.type, <<>>)>>
         /\ \A j \in DOMAIN run.heard : run.heard[j].args = <<>>
         /\ run.extractors = <<>>
         /\ OnlyListenerErrors(run)

\* main_button_pressed with a raw value, heard by a listener.
C9_Witness ==
  /\ Processed({"main_button_pressed"})
  /\ last.data = Raw("other", "x")
  /\ Len(last.runs[1].heard) = 1

\* C10: for a kind the switch does not know and any raw value, a run of
\* processEvent makes one emission on the unsafe path, of that kind and with
\* the raw value as it came, which is what the listeners get; no extractor
\* is invoked and no TypeError is raised.
C10_UnknownKindPassesThrough ==
  Processed(Kinds \ KnownKinds) =>
    \A i \in DOMAIN last.runs :
      LET run == last.runs[i]
      IN /\ run.emitted = <<Emission("emitUnsafe", last.type, <<last.data>>)>>
         /\ \A j \in DOMAIN run.heard : run.heard[j].args = <<last.data>>
         /\ run.extractors = <<>>
         /\ OnlyListenerErrors(run)

\* some_future_kind with a raw value, heard by a listener.
C10_Witness ==
  /\ Processed({"some_future_kind"})
  /\ last.data = Raw("other", "x")
  /\ Len(last.runs[1].heard) = 1
  /\ last.threw = "none"


\* -------------------------------------------------- properties of postEvent

\* The binding and the bus are as the latest call found them.
BridgeAsBefore ==
  /\ boundEmitter = last.before.bound
  /\ registered = last.before.registered
  /\ listeners = last.before.listeners
  /\ subscribers = last.before.subscribers

\* C11: postEvent called while none of the three predicates holds throws the
\* environment error, sends on no transport, writes no '[postEvent]' line and
\* leaves the binding and the bus as they were.
C11_NoEnvironmentNoSend ==
  (last.op = "postEvent" /\ last.before.env = NoEnvironment) =>
    /\ last.threw = "Error"
    /\ last.sends = <<>>
    /\ last.logs = <<>>
    /\ BridgeAsBefore

\* A bound bridge in debug mode with a listener has failed to post.
C11_Witness ==
  /\ last.op = "postEvent"
  /\ last.before.env = NoEnvironment
  /\ last.threw = "Error"
  /\ debug
  /\ boundEmitter = "A"
  /\ listeners # <<>>

\* The transports whose predicate held when the latest call was made.
Available ==
  (IF last.before.env.browser THEN {"window.parent.postMessage"} ELSE {})
  \cup (IF last.before.env.desktopOrMobile
        THEN {"window.TelegramWebviewProxy.postEvent"} ELSE {})
  \cup (IF last.before.env.windowsPhone THEN {"window.external.notify"} ELSE {})

\* C12: a postEvent that returns has made exactly one send, on a transport
\* whose predicate held during that call (so on the one transport of the
\* environment when a single predicate holds, and on one only when several
\* do), whatever the environment of earlier calls was.
C12_OneSendOnOneTransport ==
  (last.op = "postEvent" /\ last.threw = "none") =>
    /\ Len(last.sends) = 1
    /\ last.sends[1].method \in Available

\* Two calls in a row, the window changed in between: the first went to the
\* parent window, the second, with two predicates holding, to the proxy.
C12_Witness ==
  /\ last.op = "postEvent"
  /\ last.threw = "none"
  /\ last.before.sends # <<>>
  /\ last.before.sends[1].method = "window.parent.postMessage"
  /\ last.sends[1].method = "window.TelegramWebviewProxy.postEvent"
  /\ Cardinality(Available) = 2

\* C13: in a browser environment, in either call form, the message goes to
\* the targetOrigin of the caller's options when they give one and to the
\* bridge's otherwise, and its eventData is the caller's params ('' when the
\* form has none), never the options object.
C13_OptionsInEitherForm ==
  (last.op = "postEvent" /\ last.before.env.browser) =>
    /\ Len(last.sends) = 1
    /\ last.sends[1].targetOrigin =
         IF last.options # Undefined /\ last.options.shape = "targetOrigin"
         THEN last.options.arg
         ELSE targetOrigin
    /\ last.sends[1].eventData =
         IF last.form = "params" THEN last.data ELSE EmptyString
    /\ last.sends[1].eventData.form # "options"

\* ------------------------------------------------------ properties of off

\* The listeners the runs of the latest delivery have invoked.
Invoked ==
  {last.runs[i].heard[j].listener :
     <<i, j>> \in {p \in (1..Len(last.runs)) \X (1..MaxListeners) :
                      p[2] <= Len(last.runs[p[1]].heard)}}

\* The table without the registrations of the listener for the kind.
Without(table, kind, listener) ==
  SelectSeq(table, LAMBDA entry : entry # <<kind, listener>>)

\* C14: after off(kind, listener) the listener is not registered for the
\* kind, an emission of the kind does not invoke it, and every other
\* registration is kept, so an off that finds the listener not registered
\* for the kind leaves the table as it was; off does not throw.  A message
\* invokes only listeners registered for its kind, so until the pair is
\* registered again no message of the kind invokes the listener.
C14_OffRemoves ==
  /\ last.op = "off" =>
       /\ ~IsRegistered(listeners, last.type, last.listener)
       /\ LET heard == EeEmit(listeners, last.type, <<Null>>).heard
          IN \A i \in 1..Len(heard) : heard[i].listener # last.listener
       /\ listeners = Without(last.before.listeners, last.type, last.listener)
       /\ last.threw = "none"
  /\ last.op = "deliver" =>
       \A l \in Invoked \cap Listeners :
         IsRegistered(listeners, last.type, l)

\* off has removed a listener that on had registered.
C14_Witness ==
  /\ last.op = "off"
  /\ IsRegistered(last.before.listeners, last.type, last.listener)
  /\ boundEmitter # NoEmitter

\* ------------------------------------------- properties of processEvent

\* The console line of the catch of processEvent.
ErrorLine == [level |-> "error", tag |-> "[processEvent] error"]

\* C15 as stated: every TypeError of an extractor is on the console as an
\* error line when it leaves processEvent, whatever the configuration.
C15_ExtractorErrorAlwaysLogged ==
  Processed(ExtractorKinds) =>
    \A i \in DOMAIN last.runs :
      last.runs[i].threw = "TypeError" =>
        \E j \in DOMAIN last.runs[i].logs : last.runs[i].logs[j] = ErrorLine

\* C15: the TypeError of an extractor always leaves processEvent and the
\* delivery; in debug mode the console got the line of the call and then the
\* error line, and with debug mode off the console got nothing.
C15_ExtractorErrorLoggedInDebugMode ==
  Processed(ExtractorKinds) =>
    \A i \in DOMAIN last.runs :
      last.runs[i].threw = "TypeError" =>
        /\ last.threw = "TypeError"
        /\ last.runs[i].logs =
             IF debug
             THEN <<[level |-> "log", tag |-> "[processEvent]"], ErrorLine>>
             ELSE <<>>

\* An extractor has thrown in a bridge in debug mode.
C15_Witness ==
  /\ Processed(ExtractorKinds)
  /\ debug
  /\ last.runs[1].threw = "TypeError"
  /\ last.runs[1].extractors # <<>>

\* C16: a run of processEvent that returns has made exactly one emission, of
\* the kind it was called with, so a message makes one round of listener
\* calls.
C16_OneEmissionPerReturn ==
  last.op = "deliver" =>
    \A i \in DOMAIN last.runs :
      LET run == last.runs[i]
      IN run.threw = "none" =>
           /\ Len(run.emitted) = 1
           /\ run.emitted[1].event = last.type
           /\ run.emitted[1].path \in {"emit", "emitUnsafe"}
           /\ run.heard = BusEmit(last.type, run.emitted[1].args).heard

\* popup_closed arrived without a button (no extractor involved) and the
\* listener registered for it was called once.
C16_Witness ==
  /\ Processed({"popup_closed"})
  /\ last.data = Null
  /\ last.runs[1].threw = "none"
  /\ Len(last.runs[1].heard) = 1

\* C17: when a listener throws during the emission of processEvent, its
\* error leaves processEvent and the delivery of the source as it is, and
\* the binding slot and the registrations on sources are as before.
C17_ListenerErrorPropagates ==
  last.op = "deliver" =>
    \A i \in DOMAIN last.runs :
      LET run == last.runs[i]
      IN (\E j \in DOMAIN run.heard : ListenerThrows(run.heard[j].listener)) =>
           /\ run.threw = "ListenerError"
           /\ last.threw = "ListenerError"
           /\ i = Len(last.runs)
           /\ boundEmitter = last.before.bound
           /\ registered = last.before.registered

\* A message on the bound source has reached a listener that threw.
C17_Witness ==
  /\ last.op = "deliver"
  /\ last.emitter = boundEmitter
  /\ last.runs # <<>>
  /\ \E j \in DOMAIN last.runs[1].heard :
       ListenerThrows(last.runs[1].heard[j].listener)
  /\ registered[boundEmitter] = 1

\* ------------------------------------------------- properties of the frame

\* C18: a step changes the binding slot (or a registration on a source) only
\* inside the setter entered by the constructor, bind or unbind, and changes
\* the listeners or subscribers of the bus only as on, off, subscribe or
\* unsubscribe; a step of postEvent or of a delivery to processEvent,
\* returning or throwing, changes none of them.
C18_OnlyEntryPointsChange ==
  [][/\ (boundEmitter' # boundEmitter \/ registered' # registered) =>
          /\ pc \in {"off", "assign", "on"}
          /\ call.op \in {"constructor", "bind", "unbind"}
     /\ (listeners' # listeners \/ subscribers' # subscribers) =>
          /\ pc = "idle"
          /\ last'.op \in {"on", "off", "subscribe", "unsubscribe"}
     /\ last'.op \in {"postEvent", "deliver"} =>
          UNCHANGED <<boundEmitter, registered, listeners, subscribers>>]_vars

\* After an event was posted, a message on the bound source has run
\* processEvent, which threw, on a bridge with a listener on its bus.
C18_Witness ==
  /\ last.op = "deliver"
  /\ last.runs # <<>>
  /\ last.threw # "none"
  /\ last.before.sends # <<>>
  /\ boundEmitter = "A"
  /\ listeners # <<>>

\* ----------------------------------------------- properties of rebinding

\* The latest binding call has returned and was given a source.
EndsBound ==
  /\ pc = "idle"
  /\ hist # <<>>
  /\ hist[Len(hist)].threw = "none"
  /\ hist[Len(hist)].emitter # NoEmitter

\* C19: whenever the latest binding call returned bound to a source, whatever
\* came before it (the same bind included), the slot names that source,
\* processEvent is registered on it exactly once and on no other source, and
\* a message delivered on it runs processEvent exactly once.
C19_BindIsIdempotent ==
  EndsBound =>
    /\ boundEmitter = hist[Len(hist)].emitter
    /\ registered[boundEmitter] = 1
    /\ RegisteredOn = {boundEmitter}
    /\ (last.op = "deliver" /\ last.emitter = boundEmitter) =>
         Len(last.runs) = 1

\* bind(A) was called twice in a row and a message on A has been delivered.
C19_Witness ==
  /\ EndsBound
  /\ Len(hist) = 2
  /\ Returned(hist[1], "bind")
  /\ Returned(hist[2], "bind")
  /\ hist[1].emitter = hist[2].emitter
  /\ last.op = "deliver"
  /\ last.emitter = boundEmitter
  /\ Len(last.runs) = 1

\* The binding calls listeners made during the latest delivery.
Reentrant == RequestedIn(last.runs)

\* C20: when listeners have called unbind() or bind(B) during the
\* processEvent of a message from the bound source and processEvent has
\* returned, the slot holds what the last of them asked for, processEvent is
\* registered on that source only (on none after unbind), and a message
\* delivered on a source processEvent is not registered on does not run it.
C20_ReentrantRebinding ==
  last.op = "deliver" =>
    /\ (Reentrant # <<>> /\ last.threw = "none") =>
         LET asked == Reentrant[Len(Reentrant)].emitter
         IN /\ last.before.bound = last.emitter
            /\ boundEmitter = asked
            /\ RegisteredOn = {asked} \ {NoEmitter}
            /\ asked # last.emitter => registered[last.emitter] = 0
    /\ last.before.registered[last.emitter] = 0 => last.runs = <<>>

\* A listener has called bind(B) during a message from A: the bridge is now
\* bound to B.
C20_Witness ==
  /\ last.op = "deliver"
  /\ last.emitter = "A"
  /\ last.threw = "none"
  /\ Reentrant # <<>>
  /\ Reentrant[Len(Reentrant)].op = "bind"
  /\ boundEmitter = "B"

====
